---------------------------- MODULE Spec2Model ----------------------------
(***************************************************************************)
(* CubeMaster AI (Rubik-Solver-AI): the scan and solve paths of the app.   *)
(*                                                                         *)
(*   App      (src/unnamed/part_000)  view, cubeState, handleFaceScan,     *)
(*                                    handleAllFacesComplete,              *)
(*                                    runComparison, startPlayback, the    *)
(*                                    playback effect                      *)
(*   Scanner  (src/unnamed/part_001)  rgbToLab, COLOR_CENTROIDS,           *)
(*                                    getClosestColor, startCamera,        *)
(*                                    captureFace                          *)
(*   geminiService (src/unnamed/part_002)  geminiSolver, getTutorialHint   *)
(*                                                                         *)
(* Numbers.  The source computes in IEEE doubles; the model computes in    *)
(* integers with a stated scale and round-to-nearest at every step:        *)
(*   channel values        hundredths of an 8-bit step   (0 .. 25500)      *)
(*   linearised channels   1e-5                          (0 .. 100000)     *)
(*   x, y, z / white point 1e-5                                            *)
(*   cube-root stage       1e-3                                            *)
(*   L, a, b and centroids hundredths of a Lab unit                        *)
(* Distances are compared by their squares (Math.sqrt is increasing).      *)
(* All intermediate values stay below 2^31.                                *)
(*                                                                         *)
(* Behaviours.  Init fixes what a behaviour exercises (harness): the       *)
(* assembled application, the assembled application with a video element   *)
(* attached to videoRef, the Scanner component mounted on its own with a   *)
(* video element attached, or one function applied to drawn inputs.        *)
(***************************************************************************)
EXTENDS Integers, Sequences, FiniteSets

VARIABLES
    harness,         \* what is exercised in this behaviour, fixed by Init
    view,            \* App: 'home' | 'scan' | 'solve' | 'stats'
    cubeState,       \* App: the CubeState, face key -> Face
    centroids,       \* Scanner module: the COLOR_CENTROIDS object
    isCameraActive,  \* Scanner: useState(false)
    capturedFaces,   \* Scanner: useState<string[]>([])
    scanningStatus,  \* Scanner: 'IDLE' | 'SCANNING' | 'SUCCESS'
    cameraRequest,   \* Scanner: startCamera calls awaiting getUserMedia
    lastCapture,     \* the locals of the last captureFace that delivered
    call,            \* the last function-level call and its result
    solutions,       \* App: useState<Solution[]>([])
    isSolving,       \* App: useState(false)
    tutorialHint,    \* App: useState<string>('')
    runs,            \* App: the runComparison calls awaiting geminiSolver
    hintCalls,       \* App: the runComparison calls awaiting getTutorialHint
    event,           \* the last step: the handler that ran and the calls it made
    frameOf,         \* face key -> the frame whose capture wrote it (0: none)
    solvedFrom,      \* the cubeState given to the geminiSolver call whose
                     \* result is in solutions
    activeSolutionIdx, \* App: useState<number | null>(null)
    playbackIdx,     \* App: useState(0)
    isPlaying,       \* App: useState(false)
    timer            \* App: a timeout set by the playback effect is pending

vars == << harness, view, cubeState, centroids, isCameraActive, capturedFaces,
           scanningStatus, cameraRequest, lastCapture, call, solutions,
           isSolving, tutorialHint, runs, hintCalls, event, frameOf,
           solvedFrom, activeSolutionIdx, playbackIdx, isPlaying, timer >>

appVars == << view, cubeState >>

playVars == << activeSolutionIdx, playbackIdx, isPlaying, timer >>

solveVars ==
    << solutions, isSolving, tutorialHint, runs, hintCalls, solvedFrom, playVars >>

scannerVars == << isCameraActive, capturedFaces, scanningStatus, cameraRequest >>

-----------------------------------------------------------------------------
(* Bounds of the model *)

\* RGB inputs of the function-level harness: GridN+1 values per channel.
GridN == 8

\* Captured frames the camera can deliver: frames 1 .. MaxFrame.
MaxFrame == 4

\* Frames the camera can deliver to the Scanner mounted on its own.
MaxSessionFrame == 2

\* runComparison calls suspended at an await at one time.
MaxRuns == 2

\* startCamera calls of one Scanner awaiting getUserMedia at one time.
MaxRequests == 2

-----------------------------------------------------------------------------
(* types.ts, constants.tsx *)

Color == { "white", "yellow", "red", "orange", "blue", "green" }

FaceKeyNames == { "U", "D", "L", "R", "F", "B" }

Views == { "home", "scan", "solve", "stats" }

createFace(color) ==
    << << color, color, color >>,
       << color, color, color >>,
       << color, color, color >> >>

INITIAL_CUBE_STATE ==
    [ U |-> createFace("white"),  D |-> createFace("yellow"),
      L |-> createFace("orange"), R |-> createFace("red"),
      F |-> createFace("green"),  B |-> createFace("blue") ]

\* COLOR_MAP: '#RRGGBB' as its six hexadecimal digits.
COLOR_MAP ==
    [ white  |-> << 15, 15, 15, 15, 15, 15 >>,    \* #FFFFFF
      yellow |-> << 15, 15, 13,  7,  0,  0 >>,    \* #FFD700
      red    |-> << 13, 12,  2,  6,  2,  6 >>,    \* #DC2626
      orange |-> << 15,  9,  7,  3,  1,  6 >>,    \* #F97316
      blue   |-> <<  2,  5,  6,  3, 14, 11 >>,    \* #2563EB
      green  |-> <<  1,  6, 10,  3,  4, 10 >> ]   \* #16A34A

\* The 8-bit RGB triple a '#RRGGBB' string denotes.
HexToRGB(h) == << 16 * h[1] + h[2], 16 * h[3] + h[4], 16 * h[5] + h[6] >>

-----------------------------------------------------------------------------
(* Scanner: LAB colour utilities *)

\* a / b rounded to the nearest integer (b > 0): the rounding of one
\* floating-point operation, at the scale of the model.
RoundDiv(a, b) == (2 * a + b) \div (2 * b)

\* Math.pow((c/255 + 0.055) / 1.055, 2.4) * 1e5 at the integer channel values
\* c = 0 .. 255 (entry c + 1).
GammaPow ==
   << 83, 98, 115, 133, 152, 173, 196, 220,
      246, 274, 303, 335, 368, 402, 439, 478,
      518, 561, 605, 651, 700, 750, 802, 857,
      913, 972, 1033, 1096, 1161, 1229, 1298, 1370,
      1444, 1521, 1600, 1681, 1764, 1850, 1938, 2029,
      2122, 2217, 2315, 2416, 2519, 2624, 2732, 2843,
      2956, 3071, 3190, 3310, 3434, 3560, 3689, 3820,
      3955, 4092, 4231, 4374, 4519, 4667, 4817, 4971,
      5127, 5286, 5448, 5613, 5781, 5951, 6125, 6301,
      6480, 6663, 6848, 7036, 7227, 7421, 7619, 7819,
      8022, 8228, 8438, 8650, 8866, 9084, 9306, 9531,
      9759, 9990, 10224, 10462, 10702, 10946, 11193, 11444,
      11697, 11954, 12214, 12477, 12744, 13014, 13287, 13563,
      13843, 14126, 14413, 14703, 14996, 15293, 15593, 15896,
      16203, 16513, 16827, 17144, 17465, 17789, 18116, 18447,
      18782, 19120, 19462, 19807, 20156, 20508, 20864, 21223,
      21586, 21953, 22323, 22697, 23074, 23455, 23840, 24228,
      24620, 25016, 25415, 25818, 26225, 26636, 27050, 27468,
      27889, 28315, 28744, 29177, 29614, 30054, 30499, 30947,
      31399, 31855, 32314, 32778, 33245, 33716, 34191, 34670,
      35153, 35640, 36131, 36625, 37124, 37626, 38133, 38643,
      39157, 39676, 40198, 40724, 41254, 41789, 42327, 42869,
      43415, 43966, 44520, 45079, 45641, 46208, 46778, 47353,
      47932, 48515, 49102, 49693, 50289, 50888, 51492, 52100,
      52712, 53328, 53948, 54572, 55201, 55834, 56471, 57112,
      57758, 58408, 59062, 59720, 60383, 61050, 61721, 62396,
      63076, 63760, 64448, 65141, 65837, 66539, 67244, 67954,
      68669, 69387, 70110, 70838, 71569, 72306, 73046, 73791,
      74540, 75294, 76052, 76815, 77582, 78354, 79130, 79910,
      80695, 81485, 82279, 83077, 83880, 84687, 85499, 86316,
      87137, 87962, 88792, 89627, 90466, 91310, 92158, 93011,
      93869, 94731, 95597, 96469, 97345, 98225, 99110, 100000 >>

\* Lines 298-301, one channel.  c is the channel in hundredths; the result is
\* the linearised channel * 1e5.  c/255 > 0.04045 iff c > 1031.475 hundredths.
\* Between two integer channel values the power law is interpolated linearly
\* (error below 1e-5).
srgbToLinear(c) ==
    IF c >= 1032
    THEN LET lo == c \div 100
             fr == c % 100
         IN  IF fr = 0
             THEN GammaPow[lo + 1]
             ELSE GammaPow[lo + 1]
                    + RoundDiv((GammaPow[lo + 2] - GammaPow[lo + 1]) * fr, 100)
    ELSE RoundDiv(c * 100000, 329460)          \* (c / 25500) / 12.92

\* Line 309: a matrix row sum s (scale 1e9, i.e. XYZ/100) times 100, divided
\* by the white point w (scale 1e-3); the result has scale 1e5.
whiteNormalize(s, w) == (s \div w) * 10 + RoundDiv((s % w) * 10, w)

\* The white point D65 of line 309, scale 1e-3.
WhiteX == 95047

\* y divided by the white point of x.
WhiteY_asX == WhiteX

WhiteY == 100000

WhiteZ == 108883

\* Math.pow(v, 1/3): the integer t nearest to the cube root of v.
RECURSIVE cbrtSearch(_, _, _)
cbrtSearch(v, lo, hi) ==
    IF lo >= hi
    THEN lo
    ELSE LET mid == (lo + hi + 1) \div 2
         IN  IF mid * mid * mid <= v
             THEN cbrtSearch(v, mid, hi)
             ELSE cbrtSearch(v, lo, mid - 1)

cbrt(v) ==
    LET t == cbrtSearch(v, 0, 1290)
    IN  IF (t + 1) * (t + 1) * (t + 1) - v < v - t * t * t THEN t + 1 ELSE t

\* Lines 310-312, one coordinate.  t has scale 1e5, the result scale 1e3.
\* t > 0.008856 iff t * 1e5 > 885.6.
labF(t) ==
    IF t >= 886
    THEN cbrt(t * 10000)
    ELSE RoundDiv(7787 * t + 13793103, 100000)   \* 7.787 t + 16/116

\* Lines 303-314: from the linearised channels (scale 1e5) to [L, a, b] in
\* hundredths.
linearToLab(rN, gN, bN) ==
    LET xs == rN * 4124 + gN * 3576 + bN * 1805
        ys == rN * 2126 + gN * 7152 + bN * 722
        zs == rN * 193 + gN * 1192 + bN * 9505
        x  == labF(whiteNormalize(xs, WhiteX))
        y  == labF(whiteNormalize(ys, WhiteY))
        z  == labF(whiteNormalize(zs, WhiteZ))
    IN  << RoundDiv(116 * y - 16000, 10), 50 * (x - y), 20 * (y - z) >>

\* A converter that reads the channels in the order b, g, r.
rgbToLab_bgr(r, g, b) ==
    linearToLab(srgbToLinear(b), srgbToLinear(g), srgbToLinear(r))

\* Lines 296-315.  r, g, b in hundredths; the result [L, a, b] in hundredths.
rgbToLab(r, g, b) ==
    linearToLab(srgbToLinear(r), srgbToLinear(g), srgbToLinear(b))

\* A table that lost its 'red' entry.
COLOR_CENTROIDS_missing ==
    << << "white",  << 9500,     0,     0 >> >>,
       << "yellow", << 8500, -1000,  8000 >> >>,
       << "orange", << 6500,  4500,  6500 >> >>,
       << "blue",   << 3500,  1000, -5000 >> >>,
       << "green",  << 5500, -5000,  4000 >> >> >>

\* A table whose 'orange' point was copied from 'red'.
COLOR_CENTROIDS_samePoint ==
    << << "white",  << 9500,     0,     0 >> >>,
       << "yellow", << 8500, -1000,  8000 >> >>,
       << "red",    << 4500,  6000,  4500 >> >>,
       << "orange", << 4500,  6000,  4500 >> >>,
       << "blue",   << 3500,  1000, -5000 >> >>,
       << "green",  << 5500, -5000,  4000 >> >> >>

\* Lines 318-325, in the order Object.entries enumerates them; the points in
\* hundredths of a Lab unit.
COLOR_CENTROIDS ==
    << << "white",  << 9500,     0,     0 >> >>,
       << "yellow", << 8500, -1000,  8000 >> >>,
       << "red",    << 4500,  6000,  4500 >> >>,
       << "orange", << 6500,  4500,  6500 >> >>,
       << "blue",   << 3500,  1000, -5000 >> >>,
       << "green",  << 5500, -5000,  4000 >> >> >>

\* Lines 334-338 without the square root: the squared Euclidean distance.
distanceSq(lab, centroid) ==
    (lab[1] - centroid[1]) * (lab[1] - centroid[1])
      + (lab[2] - centroid[2]) * (lab[2] - centroid[2])
      + (lab[3] - centroid[3]) * (lab[3] - centroid[3])

RECURSIVE sqrtSearch(_, _, _)
\* The largest n in lo .. hi with n * n <= v.
sqrtSearch(v, lo, hi) ==
    IF lo >= hi THEN lo
    ELSE LET mid == (lo + hi + 1) \div 2
         IN  IF mid * mid <= v THEN sqrtSearch(v, mid, hi)
                               ELSE sqrtSearch(v, lo, mid - 1)

\* Math.sqrt, to the hundredth of a Lab unit below.
sqrt(v) == sqrtSearch(v, 0, 46340)

\* A distance with one difference left unsquared.
deltaE_unsquared(lab, centroid) ==
    sqrt((lab[1] - centroid[1])
           + (lab[2] - centroid[2]) * (lab[2] - centroid[2])
           + (lab[3] - centroid[3]) * (lab[3] - centroid[3]))

\* Lines 333-338: Delta E, the Euclidean distance, in hundredths.
deltaE(lab, centroid) == sqrt(distanceSq(lab, centroid))

\* Line 329: larger than every squared distance of the model.
Infinity == 2147483647

\* The comparison of line 339 turned around.
closer_reversed(distance, minDistance) == distance > minDistance

\* The comparison of line 339 made non-strict.
closer_orEqual(distance, minDistance) == distance <= minDistance

\* Line 339: a later centroid replaces the best one so far.
closer(distance, minDistance) == distance < minDistance

\* Lines 332-343: the loop over Object.entries(COLOR_CENTROIDS), from entry i.
RECURSIVE closestLoop(_, _, _, _)
closestLoop(lab, i, minDistance, closest) ==
    IF i > Len(centroids)
    THEN closest
    ELSE LET color    == centroids[i][1]
             centroid == centroids[i][2]
             distance == distanceSq(lab, centroid)
         IN  IF closer(distance, minDistance)
             THEN closestLoop(lab, i + 1, distance, color)
             ELSE closestLoop(lab, i + 1, minDistance, closest)

\* A step that starts without a label and accepts only centroids within
\* 50 Lab units.
closestCentroid_unset(lab) == closestLoop(lab, 1, 5000 * 5000, "unknown")

\* A step whose minDistance is kept from the earlier captures of the session
\* instead of starting at Infinity.
closestCentroid_keepsMin(lab) ==
    closestLoop(lab, 1, IF capturedFaces = << >> THEN Infinity ELSE 0, "white")

\* Lines 329-344: the nearest-centroid step on a converted point.
closestCentroid(lab) == closestLoop(lab, 1, Infinity, "white")

\* Lines 327-345.
getClosestColor(r, g, b) == closestCentroid(rgbToLab(r, g, b))

-----------------------------------------------------------------------------
(* The camera: the frames captureFace can draw onto the canvas *)

\* Sticker colours seen by the camera: the six COLOR_MAP colours, a dark
\* shadow and a skin tone.
Palette ==
    << HexToRGB(COLOR_MAP.white), HexToRGB(COLOR_MAP.yellow),
       HexToRGB(COLOR_MAP.red),   HexToRGB(COLOR_MAP.orange),
       HexToRGB(COLOR_MAP.blue),  HexToRGB(COLOR_MAP.green),
       << 40, 40, 40 >>,          << 201, 180, 150 >> >>

\* video.videoWidth x video.videoHeight of frame f, and the side and offset
\* of the square colour blocks it shows.  In the 8 x 6 frame every sampled
\* region reaches beyond the canvas.
FrameShapes ==
    << [ w |-> 60,  h |-> 60, block |-> 10, offX |-> 5, offY |-> 5 ],
       [ w |-> 60,  h |-> 60, block |-> 10, offX |-> 0, offY |-> 0 ],
       [ w |-> 120, h |-> 72, block |-> 16, offX |-> 5, offY |-> 13 ],
       [ w |-> 8,   h |-> 6,  block |-> 2,  offX |-> 0, offY |-> 0 ],
       [ w |-> 40,  h |-> 40, block |-> 7,  offX |-> 2, offY |-> 2 ],
       [ w |-> 96,  h |-> 60, block |-> 10, offX |-> 3, offY |-> 3 ] >>

FrameShape(f) == FrameShapes[((f - 1) % Len(FrameShapes)) + 1]

Frames == 1 .. MaxFrame

\* The RGBA pixel of frame f at (px, py), inside the frame; video is opaque.
FramePixel(f, px, py) ==
    LET s   == FrameShape(f)
        bx  == (px + s.offX) \div s.block
        by  == (py + s.offY) \div s.block
        rgb == Palette[((bx + 3 * by + f) % Len(Palette)) + 1]
    IN  << rgb[1], rgb[2], rgb[3], 255 >>

-----------------------------------------------------------------------------
(* Scanner: captureFace's sampling, lines 380-413 *)

\* Line 401: the side of the averaged region.
SampleSide == 10

\* Lines 385-398 in twelfths of a pixel: with m = min(width, height),
\* size = m/2, startX = (width - size)/2, step = size/3 and
\* x = startX + col*step + step/2 = (6*width - 2*m + 2*col*m) / 12.
sampleCenter12(extent, m, k) == 6 * extent - 2 * m + 2 * k * m

\* getImageData converts its arguments to integers by truncation.
Trunc12(n) == IF n >= 0 THEN n \div 12 ELSE -((-n) \div 12)

\* Line 401: ctx.getImageData(sx, sy, 10, 10).data on the canvas holding
\* frame f: RGBA bytes, row by row; transparent black outside the canvas.
getImageData(f, sx, sy) ==
    [ i \in 0 .. (SampleSide * SampleSide * 4 - 1) |->
        LET p  == i \div 4
            px == sx + (p % SampleSide)
            py == sy + (p \div SampleSide)
            s  == FrameShape(f)
        IN  IF px >= 0 /\ px < s.w /\ py >= 0 /\ py < s.h
            THEN FramePixel(f, px, py)[(i % 4) + 1]
            ELSE 0 ]

\* The region captureFace reads for cell (row, col) of frame f.
regionAt(f, row, col) ==
    LET s == FrameShape(f)
        m == IF s.w < s.h THEN s.w ELSE s.h
    IN  getImageData(f,
                     Trunc12(sampleCenter12(s.w, m, col) - 60),
                     Trunc12(sampleCenter12(s.h, m, row) - 60))

\* Lines 403-405: the loop for (i = first; i < length; i += 4), one channel
\* (offset 0, 1, 2).  The additions are exact in doubles (the sum stays below
\* 2^53), so their order is immaterial: the model adds the two halves of the
\* index range, which keeps the evaluation shallow.
RECURSIVE sumChannel(_, _, _, _)
sumChannel(imgData, first, length, offset) ==
    IF first >= length
    THEN 0
    ELSE IF first + 4 >= length
         THEN imgData[first + offset]
         ELSE LET mid == first + 4 * (((length - first + 3) \div 4) \div 2)
              IN  sumChannel(imgData, first, mid, offset)
                    + sumChannel(imgData, mid, length, offset)

\* An average that divides by the number of bytes, not of pixels.
averageRegion_byLength(imgData) ==
    LET length == Cardinality(DOMAIN imgData)
    IN  << RoundDiv(sumChannel(imgData, 0, length, 0) * 100, length),
           RoundDiv(sumChannel(imgData, 0, length, 1) * 100, length),
           RoundDiv(sumChannel(imgData, 0, length, 2) * 100, length) >>

\* Lines 402-408: the averaged [r, g, b] of a region, in hundredths.
averageRegion(imgData) ==
    LET length == Cardinality(DOMAIN imgData)
        n      == length \div 4
    IN  << RoundDiv(sumChannel(imgData, 0, length, 0) * 100, n),
           RoundDiv(sumChannel(imgData, 0, length, 1) * 100, n),
           RoundDiv(sumChannel(imgData, 0, length, 2) * 100, n) >>

\* Lines 396-408 for every cell of every frame the camera can deliver: what
\* captureFace computes from a frame depends on the frame alone, so it is
\* evaluated once and looked up afterwards.
SampleTable ==
    { [ at  |-> << f, row, col >>,
        rgb |-> averageRegion(regionAt(f, row, col)) ] :
      f \in Frames, row \in 0 .. 2, col \in 0 .. 2 }

\* Lines 396-408 for one cell.
sampleAt(f, row, col) ==
    (CHOOSE s \in SampleTable : s.at = << f, row, col >>).rgb

\* An inner loop that samples cell (col, row) for cell (row, col).
RECURSIVE scanRow_transposed(_, _, _, _)
scanRow_transposed(f, row, col, rowColors) ==
    IF col < 3
    THEN LET rgb == sampleAt(f, col, row)
         IN  scanRow_transposed(f, row, col + 1,
                     Append(rowColors, getClosestColor(rgb[1], rgb[2], rgb[3])))
    ELSE rowColors

\* Lines 395-411: the inner loop, from column col on.
RECURSIVE scanRow(_, _, _, _)
scanRow(f, row, col, rowColors) ==
    IF col < 3
    THEN LET rgb == sampleAt(f, row, col)
         IN  scanRow(f, row, col + 1,
                     Append(rowColors, getClosestColor(rgb[1], rgb[2], rgb[3])))
    ELSE rowColors

\* Lines 393-413: the outer loop, from row row on.
RECURSIVE scanFace(_, _, _)
scanFace(f, row, detectedFace) ==
    IF row < 3
    THEN scanFace(f, row + 1, Append(detectedFace, scanRow(f, row, 0, << >>)))
    ELSE detectedFace

\* Lines 353-354.
faces == << "Front", "Back", "Up", "Down", "Left", "Right" >>

faceKeys == << "F", "B", "U", "D", "L", "R" >>

\* A guard that lets a seventh capture through.
captureFaceReturns_offByOne(videoCurrent, canvasCurrent, captured) ==
    ~videoCurrent \/ ~canvasCurrent \/ captured > 6

\* Line 372: captureFace returns at once.
captureFaceReturns(videoCurrent, canvasCurrent, captured) ==
    ~videoCurrent \/ ~canvasCurrent \/ captured >= 6

\* A capture that reports the face once per row scanned.
onScanCompleteCalls_perRow(f, captured) ==
    [ row \in 1 .. 3 |->
        [ key |-> faceKeys[captured + 1], face |-> scanFace(f, 0, << >>) ] ]

\* Lines 391-416: the calls of onScanComplete one captureFace makes.
onScanCompleteCalls(f, captured) ==
    << [ key |-> faceKeys[captured + 1], face |-> scanFace(f, 0, << >>) ] >>

\* An updater that starts the list again.
setCapturedFaces_restart(prev) == << faces[1] >>

\* Line 418: the updater prev => [...prev, faces[prev.length]].
setCapturedFaces(prev) == Append(prev, faces[Len(prev) + 1])

\* An effect that reports success one face early.
successEffect_early(length, status) ==
    IF length = 5 THEN "SUCCESS" ELSE status

\* Lines 424-428: the effect on capturedFaces.
successEffect(length, status) ==
    IF length = 6 THEN "SUCCESS" ELSE status

-----------------------------------------------------------------------------
(* App *)

\* An updater without the spread of prev.
handleFaceScan_noSpread(prev, faceKey, faceData) ==
    [ k \in { faceKey } |-> faceData ]

\* Lines 20-25: the updater prev => ({...prev, [faceKey]: faceData}).
handleFaceScan(prev, faceKey, faceData) ==
    [ k \in (DOMAIN prev) \cup { faceKey } |->
        IF k = faceKey THEN faceData ELSE prev[k] ]

\* A delivery that puts each face into a fresh INITIAL_CUBE_STATE.
deliver_intoInitial(cs, calls) ==
    IF calls = << >> THEN cs
    ELSE handleFaceScan(INITIAL_CUBE_STATE, calls[Len(calls)].key,
                        calls[Len(calls)].face)

RECURSIVE deliver(_, _)
\* Lines 229-230: handleFaceScan for each call of onScanComplete, in order.
deliver(cs, calls) ==
    IF calls = << >> THEN cs
    ELSE deliver(handleFaceScan(cs, Head(calls).key, Head(calls).face), Tail(calls))

\* Lines 27-29: the view handleAllFacesComplete sets.
handleAllFacesComplete == "solve"

\* Line 231: the test before handleAllFacesComplete.  cs is the cubeState of
\* the render that created the callback.
allFacesComplete(cs) == Cardinality(DOMAIN cs) >= 5

\* Lines 27-29 and 229-232: what the Scanner's onScanComplete prop does to
\* the view.
onScanCompleteView(cs, v) ==
    IF allFacesComplete(cs) THEN handleAllFacesComplete ELSE v

\* The sequence s without its i-th element.
without(s, i) == SubSeq(s, 1, i - 1) \o SubSeq(s, i + 1, Len(s))

-----------------------------------------------------------------------------
(* geminiService: texts and JSON *)

\* A text is a sequence of tokens: whitespace, punctuation, the word null, a
\* quoted string, or any other bare word.
Ws == [ t |-> "ws", s |-> " " ]

Punct(c) == [ t |-> c, s |-> c ]

Str(s) == [ t |-> "str", s |-> s ]

Word(s) == [ t |-> IF s = "null" THEN "null" ELSE "word", s |-> s ]

RECURSIVE trimStart(_)
\* String.prototype.trim, the leading side.
trimStart(text) ==
    IF text # << >> /\ Head(text).t = "ws" THEN trimStart(Tail(text)) ELSE text

RECURSIVE trimEnd(_)
\* String.prototype.trim, the trailing side.
trimEnd(text) ==
    IF text # << >> /\ text[Len(text)].t = "ws"
    THEN trimEnd(SubSeq(text, 1, Len(text) - 1))
    ELSE text

trim(text) == trimEnd(trimStart(text))

\* JavaScript values read from JSON.
JsNull == [ t |-> "null" ]

JsUndefined == [ t |-> "undefined" ]

JsString(s) == [ t |-> "string", s |-> s ]

JsArray(items) == [ t |-> "array", items |-> items ]

JsObject(members) == [ t |-> "object", members |-> members ]

\* An array of strings, as the literals of lines 36, 43 and 66 build it.
Moves(names) == JsArray([ i \in 1 .. Len(names) |-> JsString(names[i]) ])

SyntaxError == [ ok |-> FALSE, value |-> JsUndefined, rest |-> << >> ]

Parsed(value, rest) == [ ok |-> TRUE, value |-> value, rest |-> rest ]

RECURSIVE parseValue(_)
RECURSIVE parseElements(_, _)
RECURSIVE parseMembers(_, _)

\* JSON.parse: one value (null, a string, an array, an object) at the head of
\* the text, whitespace allowed around every token.
parseValue(text) ==
    LET s == trimStart(text)
    IN  IF s = << >> THEN SyntaxError
        ELSE IF Head(s).t = "null" THEN Parsed(JsNull, Tail(s))
        ELSE IF Head(s).t = "str" THEN Parsed(JsString(Head(s).s), Tail(s))
        ELSE IF Head(s).t = "["
             THEN LET r == trimStart(Tail(s))
                  IN  IF r # << >> /\ Head(r).t = "]"
                      THEN Parsed(JsArray(<< >>), Tail(r))
                      ELSE parseElements(r, << >>)
        ELSE IF Head(s).t = "{"
             THEN LET r == trimStart(Tail(s))
                  IN  IF r # << >> /\ Head(r).t = "}"
                      THEN Parsed(JsObject(<< >>), Tail(r))
                      ELSE parseMembers(r, << >>)
        ELSE SyntaxError

\* The elements of an array after '[' or ',', up to the closing ']'.
parseElements(text, items) ==
    LET v == parseValue(text)
        r == trimStart(v.rest)
    IN  IF ~v.ok \/ r = << >> THEN SyntaxError
        ELSE IF Head(r).t = "]" THEN Parsed(JsArray(Append(items, v.value)), Tail(r))
        ELSE IF Head(r).t = "," THEN parseElements(Tail(r), Append(items, v.value))
        ELSE SyntaxError

\* The members of an object after '{' or ',', up to the closing '}'.
parseMembers(text, members) ==
    LET s == trimStart(text)
    IN  IF s = << >> \/ Head(s).t # "str" THEN SyntaxError
        ELSE LET c == trimStart(Tail(s))
             IN  IF c = << >> \/ Head(c).t # ":" THEN SyntaxError
                 ELSE LET v   == parseValue(Tail(c))
                          r   == trimStart(v.rest)
                          all == Append(members, << Head(s).s, v.value >>)
                      IN  IF ~v.ok \/ r = << >> THEN SyntaxError
                          ELSE IF Head(r).t = "}" THEN Parsed(JsObject(all), Tail(r))
                          ELSE IF Head(r).t = "," THEN parseMembers(Tail(r), all)
                          ELSE SyntaxError

\* JSON.parse(text): the whole text is one value.
JSONparse(text) ==
    LET v == parseValue(text)
    IN  IF v.ok /\ trimStart(v.rest) = << >> THEN v ELSE SyntaxError

RECURSIVE lookup(_, _, _)
\* The member named name among the first n members; a later duplicate wins.
lookup(members, name, n) ==
    IF n = 0 THEN JsUndefined
    ELSE IF members[n][1] = name THEN members[n][2]
    ELSE lookup(members, name, n - 1)

\* data.name: throws on null (and undefined), is undefined on a value that
\* has no such property.
property(data, name) ==
    IF data.t \in { "null", "undefined" }
    THEN [ threw |-> TRUE, value |-> JsUndefined ]
    ELSE IF data.t = "object"
    THEN [ threw |-> FALSE, value |-> lookup(data.members, name, Len(data.members)) ]
    ELSE [ threw |-> FALSE, value |-> JsUndefined ]

-----------------------------------------------------------------------------
(* geminiService: geminiSolver, getTutorialHint *)

\* What ai.models.generateContent settles with: it rejects, or it fulfils
\* with a response whose text is undefined or a text.
Rejects == [ fulfilled |-> FALSE, hasText |-> FALSE, text |-> << >> ]

NoText == [ fulfilled |-> TRUE, hasText |-> FALSE, text |-> << >> ]

Text(text) == [ fulfilled |-> TRUE, hasText |-> TRUE, text |-> text ]

\* Math.round of a non-negative time given in tenths of a millisecond.
MathRound(tenths) == (tenths + 5) \div 10

\* Line 66.
fallbackSolution ==
    [ moves       |-> Moves(<< >>),
      solverName  |-> "Gemini AI",
      timeMs      |-> 0,
      explanation |-> JsString("Error communicating with AI") ]

Threw == [ threw |-> TRUE, value |-> fallbackSolution ]

\* Lines 22-63, the body of the try: the Solution returned, or threw.
geminiTry(response, elapsed) ==
    IF ~response.fulfilled THEN Threw
    ELSE IF ~response.hasText \/ response.text = << >> THEN Threw
    ELSE LET p == JSONparse(trim(response.text))
         IN  IF ~p.ok THEN Threw
             ELSE LET moves       == property(p.value, "moves")
                      explanation == property(p.value, "explanation")
                  IN  IF moves.threw THEN Threw
                      ELSE [ threw |-> FALSE,
                             value |->
                               [ moves       |-> moves.value,
                                 solverName  |-> "Gemini AI (Deep Learning)",
                                 timeMs      |-> MathRound(elapsed),
                                 explanation |-> explanation.value ] ]

\* A catch block that throws the error on.
geminiSolver_rethrows(state, response, elapsed) ==
    LET t == geminiTry(response, elapsed)
    IN  [ settled |-> IF t.threw THEN "rejected" ELSE "fulfilled", value |-> t.value ]

\* Lines 17-68: how the promise geminiSolver returns settles.
geminiSolver(state, response, elapsed) ==
    LET t == geminiTry(response, elapsed)
    IN  [ settled |-> "fulfilled",
          value   |-> IF t.threw THEN fallbackSolution ELSE t.value ]

defaultHint == << Word("Keep going! You're doing great.") >>

\* Lines 70-83: response.text?.trim() || default, the default on a throw.
\* The cube state and the moves go into the prompt only.
getTutorialHint(response) ==
    IF ~response.fulfilled \/ ~response.hasText THEN defaultHint
    ELSE IF trim(response.text) = << >> THEN defaultHint
    ELSE trim(response.text)

-----------------------------------------------------------------------------
(* App: runComparison *)

\* Lines 35-40.
kociembaMock ==
    [ moves       |-> Moves(<< "U", "R", "L2", "F'", "B", "D2" >>),
      solverName  |-> "Kociemba WASM",
      timeMs      |-> 45,
      explanation |->
        JsString("Heuristic-based optimization focusing on coordinate reduction.") ]

\* Lines 42-47.
korfMock ==
    [ moves       |-> Moves(<< "R", "U", "R'", "U'" >>),
      solverName  |-> "Korf Optimal",
      timeMs      |-> 2500,
      explanation |->
        JsString("Iterative Deepening A* search for the shortest possible path.") ]

\* The AI result put last.
comparison_aiLast(geminiSolution) ==
    << kociembaMock, korfMock, geminiSolution >>

\* Line 49: the array given to setSolutions.
comparison(geminiSolution) ==
    << geminiSolution, kociembaMock, korfMock >>

-----------------------------------------------------------------------------
(* App: playback and rendering *)

\* activeSolutionIdx === null; the indices of solutions are 0, 1, 2.
null == -1

\* solutions[idx], idx counted from 0 as in the code.
solutionAt(list, idx) == list[idx + 1]

\* moves.length, moves.map: they throw unless moves is an array.
isArray(moves) == moves.t = "array"

movesLength(moves) == Len(moves.items)

\* An effect that stops one move early.
playbackEffect_stopsEarly(playing, active, idx, list) ==
    IF playing /\ active # null
    THEN IF ~isArray(solutionAt(list, active).moves)
         THEN [ threw |-> TRUE, isPlaying |-> playing, timer |-> FALSE ]
         ELSE IF idx + 1 < movesLength(solutionAt(list, active).moves)
         THEN [ threw |-> FALSE, isPlaying |-> TRUE, timer |-> TRUE ]
         ELSE [ threw |-> FALSE, isPlaying |-> FALSE, timer |-> FALSE ]
    ELSE [ threw |-> FALSE, isPlaying |-> playing, timer |-> FALSE ]

\* App lines 68-82: the playback effect (after the cleanup of the previous
\* one, which clears its timeout) and the render that setIsPlaying(false)
\* causes, whose effect sets no timeout: what isPlaying is afterwards,
\* whether a timeout is pending, and whether solution.moves.length threw.
playbackEffect(playing, active, idx, list) ==
    IF playing /\ active # null
    THEN IF ~isArray(solutionAt(list, active).moves)
         THEN [ threw |-> TRUE, isPlaying |-> playing, timer |-> FALSE ]
         ELSE IF idx < movesLength(solutionAt(list, active).moves)
         THEN [ threw |-> FALSE, isPlaying |-> TRUE, timer |-> TRUE ]
         ELSE [ threw |-> FALSE, isPlaying |-> FALSE, timer |-> FALSE ]
    ELSE [ threw |-> FALSE, isPlaying |-> playing, timer |-> FALSE ]

\* App lines 236-310 and SolverDashboard line 13: rendering the solve view
\* throws when a solution's moves is not an array (sol.moves.map,
\* s.moves.length).
renderThrows(v, list) ==
    v = "solve" /\ \E i \in 1 .. Len(list) : ~isArray(list[i].moves)

\* An error thrown by a render or by an effect is not caught (there is no
\* error boundary): React unmounts the application, and nothing of it runs
\* any more.
Crashed ==
    \/ renderThrows(view, solutions)
    \/ playbackEffect(isPlaying, activeSolutionIdx, playbackIdx, solutions).threw

-----------------------------------------------------------------------------
(* What a behaviour exercises *)

\* "App": the assembled application from its construction.  The <video>
\*   element exists only while isCameraActive (lines 433-454).
\* "AppVideo": the assembled application with a video element attached to
\*   videoRef from the start, the state startCamera and captureFace are
\*   written for; the user scans and changes views and leaves Compute alone.
\* "AppVideoSolve": as "AppVideo", the user also clicking Compute, with the
\*   frames 1 .. MaxSessionFrame on the video.
\* "AppPlayback": the assembled application from its construction, the user
\*   moving between the home and solve views, clicking Compute, the solution
\*   cards and the play button.
\* "ScannerVideo": the Scanner component mounted on its own, a video element
\*   attached to videoRef, its onScanComplete prop being handleFaceScan.
\* The others apply one function to inputs drawn from a bounded set.
AppHarnesses == { "App", "AppVideo", "AppVideoSolve", "AppPlayback" }

\* The behaviours in which Compute is clicked.
SolveHarnesses == { "App", "AppVideoSolve", "AppPlayback" }

\* The behaviours in which the playback controls are clicked.
PlaybackHarnesses == { "AppPlayback" }

ScannerHarnesses == { "ScannerVideo" }

UnitHarnesses ==
    { "getClosestColor", "closestCentroid", "handleFaceScan", "distance",
      "geminiSolver" }

\* videoRef.current is not null.
videoRefCurrent ==
    harness \in { "AppVideo", "AppVideoSolve", "ScannerVideo" } \/ isCameraActive

\* canvasRef.current is not null: the canvas is rendered always (line 432).
canvasRefCurrent == TRUE

NoCapture ==
    [ frame |-> 0, key |-> "none", index |-> 0, samples |-> << >>, face |-> << >> ]

NoResult == [ settled |-> "none", value |-> fallbackSolution ]

NoCall ==
    [ fn |-> "none", rgb |-> << 0, 0, 0 >>, lab |-> << 0, 0, 0 >>,
      color |-> "none", key |-> "none", other |-> << 0, 0, 0 >>,
      distance |-> 0, distanceBack |-> 0,
      response |-> Rejects, elapsed |-> 0, gemini |-> NoResult ]

\* What the last step called, when it ran captureFace or settled a
\* geminiSolver (op): the onScanComplete calls made, whether
\* handleAllFacesComplete was called, capturedFaces.length at the start, the
\* frame whose capture had written the delivered key before (0: none), and
\* how the promise of geminiSolver settled.
NoEvent ==
    [ op |-> "none", calls |-> << >>, complete |-> FALSE, index |-> 0,
      previous |-> 0, gemini |-> NoResult ]

Ev(op) == [ NoEvent EXCEPT !.op = op ]

\* The RGB inputs of the getClosestColor harness, in hundredths: a grid over
\* the 8-bit cube, the greys around the threshold of the linear segment, and
\* the COLOR_MAP values.
GridValues == { ((255 * k) \div GridN) * 100 : k \in 0 .. GridN }

RGBInputs ==
    (GridValues \X GridValues \X GridValues)
      \cup { << 100 * c, 100 * c, 100 * c >> : c \in 0 .. 12 }
      \cup { << 100 * HexToRGB(COLOR_MAP[c])[1], 100 * HexToRGB(COLOR_MAP[c])[2],
                100 * HexToRGB(COLOR_MAP[c])[3] >> : c \in Color }

\* The Lab inputs of the closestCentroid harness, in hundredths: the
\* reference points, the midpoints of every two of them, and a coarse grid.
LabInputs ==
    { COLOR_CENTROIDS[i][2] : i \in 1 .. Len(COLOR_CENTROIDS) }
      \cup { << (COLOR_CENTROIDS[i][2][1] + COLOR_CENTROIDS[j][2][1]) \div 2,
                (COLOR_CENTROIDS[i][2][2] + COLOR_CENTROIDS[j][2][2]) \div 2,
                (COLOR_CENTROIDS[i][2][3] + COLOR_CENTROIDS[j][2][3]) \div 2 >> :
             i, j \in 1 .. Len(COLOR_CENTROIDS) }
      \cup ({ 0, 5000, 10000 } \X { -8000, 0, 8000 } \X { -8000, 0, 8000 })

\* The faces of the handleFaceScan harness.
UnitFaces == { createFace("white"), createFace("red") }

\* The frames of a behaviour: every frame in the assembled application, the
\* first MaxSessionFrame of them for the Scanner on its own.
\* The views the user opens.
ViewsOf(h) == IF h \in PlaybackHarnesses THEN { "home", "solve" } ELSE Views

FramesOf(h) ==
    IF h \in ScannerHarnesses \cup { "AppVideoSolve" } THEN 1 .. MaxSessionFrame
    ELSE Frames

\* The texts generateContent answers geminiSolver with: the empty text,
\* texts that are not JSON, JSON that is not an object, an object without
\* moves, and an object as the response schema describes it.
SolverTexts ==
    { << >>,
      << Ws >>,
      << Word("Sorry") >>,
      << Word("null") >>,
      << Punct("{"), Str("moves"), Punct(":"), Punct("["), Str("R") >>,
      << Punct("{"), Str("explanation"), Punct(":"), Str("none"), Punct("}") >>,
      << Ws, Punct("{"), Str("moves"), Punct(":"), Punct("["), Str("R"), Punct(","),
         Ws, Str("U'"), Punct("]"), Punct(","), Str("strategy"), Punct(":"),
         Str("CFOP"), Punct(","), Str("explanation"), Punct(":"), Str("Cross"),
         Punct("}"), Ws >> }

SolverResponses == { Rejects, NoText } \cup { Text(text) : text \in SolverTexts }

\* performance.now() - startTime, in tenths of a millisecond.
ElapsedTimes == { 4, 12345 }

\* The responses and the elapsed time of the runs of the assembled
\* application: a rejection, an object without moves, a full object.
AppSolverResponses ==
    { Rejects,
      Text(<< Punct("{"), Str("explanation"), Punct(":"), Str("none"), Punct("}") >>),
      Text(<< Punct("{"), Str("moves"), Punct(":"), Punct("["), Str("R"), Punct(","),
              Str("U'"), Punct("]"), Punct(","), Str("explanation"), Punct(":"),
              Str("Cross"), Punct("}") >>) }

AppElapsed == 12345

\* The responses generateContent answers getTutorialHint with.
HintResponses ==
    { Rejects, NoText, Text(<< Ws >>), Text(<< Ws, Word("Solve the cross"), Ws >>) }

-----------------------------------------------------------------------------
(* The state machine *)

ScannerInit ==
    /\ isCameraActive = FALSE
    /\ capturedFaces = << >>
    /\ scanningStatus = "IDLE"
    /\ cameraRequest = 0

\* The Scanner is mounted while view = 'scan'; its state is created at mount
\* and dropped at unmount.
ScannerReset ==
    /\ isCameraActive' = FALSE
    /\ capturedFaces' = << >>
    /\ scanningStatus' = "IDLE"
    /\ cameraRequest' = 0

Init ==
    /\ harness \in AppHarnesses \cup ScannerHarnesses \cup UnitHarnesses
    /\ view = IF harness \in ScannerHarnesses THEN "scan" ELSE "home"
    /\ cubeState = INITIAL_CUBE_STATE
    /\ centroids = COLOR_CENTROIDS
    /\ ScannerInit
    /\ lastCapture = NoCapture
    /\ call = NoCall
    /\ solutions = << >>
    /\ isSolving = FALSE
    /\ tutorialHint = << >>
    /\ runs = << >>
    /\ hintCalls = 0
    /\ event = NoEvent
    /\ frameOf = [ k \in FaceKeyNames |-> 0 ]
    /\ solvedFrom = INITIAL_CUBE_STATE
    /\ activeSolutionIdx = null
    /\ playbackIdx = 0
    /\ isPlaying = FALSE
    /\ timer = FALSE

\* App lines 86, 100, 113, 144, 160, 167, 181, 400: setView(v).
SetView(v) ==
    /\ harness \in AppHarnesses
    /\ ~Crashed
    /\ v \in ViewsOf(harness)
    /\ v # view
    /\ view' = v
    /\ IF view = "scan" \/ v = "scan"
       THEN ScannerReset
       ELSE UNCHANGED scannerVars
    /\ timer' = (timer /\ ~renderThrows(v, solutions))
    /\ event' = NoEvent
    /\ UNCHANGED << harness, cubeState, centroids, lastCapture, call, solutions,
                    isSolving, tutorialHint, runs, hintCalls, solvedFrom,
                    activeSolutionIdx, playbackIdx, isPlaying, frameOf >>

\* Scanner lines 356-360: a click on 'Enable AR Core', up to the await.  The
\* button stays rendered until isCameraActive, so it can be clicked again
\* while an earlier call is still waiting.
StartCamera ==
    /\ harness \in AppHarnesses \cup ScannerHarnesses
    /\ ~Crashed
    /\ view = "scan"
    /\ ~isCameraActive
    /\ cameraRequest < MaxRequests
    /\ cameraRequest' = cameraRequest + 1
    /\ event' = NoEvent
    /\ UNCHANGED << harness, appVars, centroids, isCameraActive, capturedFaces,
                    scanningStatus, lastCapture, call, solveVars, frameOf >>

\* Scanner lines 361-365: getUserMedia resolved for one of the waiting calls.
GetUserMediaResolved ==
    /\ harness \in AppHarnesses \cup ScannerHarnesses
    /\ ~Crashed
    /\ cameraRequest > 0
    /\ cameraRequest' = cameraRequest - 1
    /\ IF videoRefCurrent
       THEN /\ isCameraActive' = TRUE
            /\ scanningStatus' = "SCANNING"
       ELSE UNCHANGED << isCameraActive, scanningStatus >>
    /\ event' = NoEvent
    /\ UNCHANGED << harness, appVars, centroids, capturedFaces, lastCapture, call,
                    solveVars, frameOf >>

\* Scanner lines 366-368: getUserMedia rejected.
GetUserMediaRejected ==
    /\ harness \in AppHarnesses \cup ScannerHarnesses
    /\ ~Crashed
    /\ cameraRequest > 0
    /\ cameraRequest' = cameraRequest - 1
    /\ event' = NoEvent
    /\ UNCHANGED << harness, appVars, centroids, isCameraActive, capturedFaces,
                    scanningStatus, lastCapture, call, solveVars, frameOf >>

\* Scanner lines 371-428 with App lines 20-29 and 229-232: a click on the
\* capture button (rendered while isCameraActive, disabled on SUCCESS) with
\* frame f on the video; ctxOk: canvas.getContext returned a context.  The
\* calls of onScanComplete are computed once and bound to calls.
CaptureFace(f, ctxOk) ==
    /\ harness \in AppHarnesses \cup ScannerHarnesses
    /\ ~Crashed
    /\ f \in FramesOf(harness)
    /\ view = "scan"
    /\ isCameraActive
    /\ scanningStatus # "SUCCESS"
    /\ IF captureFaceReturns(videoRefCurrent, canvasRefCurrent, Len(capturedFaces))
          \/ ~ctxOk
       THEN /\ event' = Ev("captureFace")
            /\ UNCHANGED << harness, appVars, centroids, scannerVars, lastCapture,
                            call, solveVars, frameOf >>
       ELSE \E calls \in { onScanCompleteCalls(f, Len(capturedFaces)) } :
            LET complete  == harness \in AppHarnesses /\ Len(calls) > 0
                               /\ allFacesComplete(cubeState)
                nextView  == IF harness \in AppHarnesses /\ Len(calls) > 0
                             THEN onScanCompleteView(cubeState, view)
                             ELSE view
                nextFaces == setCapturedFaces(capturedFaces)
            IN  /\ cubeState' = deliver(cubeState, calls)
                /\ view' = nextView
                /\ IF nextView # "scan"
                   THEN ScannerReset
                   ELSE /\ capturedFaces' = nextFaces
                        /\ scanningStatus' = successEffect(Len(nextFaces), scanningStatus)
                        /\ UNCHANGED << isCameraActive, cameraRequest >>
                /\ lastCapture' =
                     [ frame   |-> f,
                       key     |-> faceKeys[Len(capturedFaces) + 1],
                       index   |-> Len(capturedFaces),
                       samples |-> [ row \in 0 .. 2, col \in 0 .. 2 |->
                                       sampleAt(f, row, col) ],
                       face    |-> calls[Len(calls)].face ]
                /\ event' = [ Ev("captureFace") EXCEPT
                                !.calls = calls, !.complete = complete,
                                !.index = Len(capturedFaces),
                                !.previous = frameOf[faceKeys[Len(capturedFaces) + 1]] ]
                /\ frameOf' = [ k \in FaceKeyNames |->
                                  IF \E i \in 1 .. Len(calls) : calls[i].key = k
                                  THEN f ELSE frameOf[k] ]
                /\ UNCHANGED << harness, centroids, call, solveVars >>

\* A Compute button that is never disabled.
computeDisabled_never(solving) == FALSE

\* App line 275: disabled={isSolving} on the Compute button.
computeDisabled(solving) == solving

\* App lines 31-33: a click on Compute (rendered in the solve view, disabled
\* while isSolving), up to the await of geminiSolver.  The run keeps the
\* cubeState of the render that created it.
RunComparison ==
    /\ harness \in SolveHarnesses
    /\ ~Crashed
    /\ view = "solve"
    /\ ~computeDisabled(isSolving)
    /\ Len(runs) + hintCalls < MaxRuns
    /\ isSolving' = TRUE
    /\ runs' = Append(runs, [ state |-> cubeState ])
    /\ event' = NoEvent
    /\ UNCHANGED << harness, appVars, centroids, scannerVars, lastCapture, call,
                    solutions, tutorialHint, hintCalls, frameOf, solvedFrom,
                    playVars >>

\* App lines 33-52 and geminiService lines 17-68: generateContent settles for
\* run i; the run goes on to call getTutorialHint and awaits it, or ends if
\* the promise of geminiSolver rejected.  solutions is a dependency of the
\* playback effect (line 82), which runs again.
GeminiSettles(i, response) ==
    /\ harness \in SolveHarnesses
    /\ ~Crashed
    /\ i \in 1 .. Len(runs)
    /\ \E result \in { geminiSolver(runs[i].state, response, AppElapsed) } :
          /\ IF result.settled = "fulfilled"
             THEN /\ solutions' = comparison(result.value)
                  /\ solvedFrom' = runs[i].state
                  /\ isSolving' = FALSE
                  /\ hintCalls' = hintCalls + 1
                  /\ \E eff \in { playbackEffect(isPlaying, activeSolutionIdx,
                                                 playbackIdx, solutions') } :
                        /\ isPlaying' = eff.isPlaying
                        /\ timer' = (eff.timer /\ ~renderThrows(view, solutions'))
             ELSE UNCHANGED << solutions, solvedFrom, isSolving, hintCalls,
                               isPlaying, timer >>
          /\ event' = [ Ev("geminiSolver") EXCEPT !.gemini = result ]
    /\ runs' = without(runs, i)
    /\ UNCHANGED << harness, appVars, centroids, scannerVars, lastCapture, call,
                    tutorialHint, frameOf, activeSolutionIdx, playbackIdx >>

\* App lines 52-53 and geminiService lines 70-83: generateContent settles for
\* one of the awaited hints.
HintSettles(response) ==
    /\ harness \in SolveHarnesses
    /\ ~Crashed
    /\ hintCalls > 0
    /\ tutorialHint' = getTutorialHint(response)
    /\ hintCalls' = hintCalls - 1
    /\ event' = NoEvent
    /\ UNCHANGED << harness, appVars, centroids, scannerVars, lastCapture, call,
                    solutions, isSolving, runs, frameOf, solvedFrom, playVars >>

\* App lines 56-60 and 288: a click on the card of solution idx (rendered in
\* the solve view for each entry of solutions), and the playback effect.
StartPlayback(idx) ==
    /\ harness \in PlaybackHarnesses
    /\ ~Crashed
    /\ view = "solve"
    /\ idx \in 0 .. (Len(solutions) - 1)
    /\ activeSolutionIdx' = idx
    /\ playbackIdx' = 0
    /\ \E eff \in { playbackEffect(TRUE, idx, 0, solutions) } :
          /\ isPlaying' = eff.isPlaying
          /\ timer' = eff.timer
    /\ event' = Ev("startPlayback")
    /\ UNCHANGED << harness, appVars, centroids, scannerVars, lastCapture, call,
                    solutions, isSolving, tutorialHint, runs, hintCalls, frameOf,
                    solvedFrom >>

\* App line 255: a click on the play / pause button of the solve view, and
\* the playback effect.
TogglePlay ==
    /\ harness \in PlaybackHarnesses
    /\ ~Crashed
    /\ view = "solve"
    /\ \E eff \in { playbackEffect(~isPlaying, activeSolutionIdx, playbackIdx,
                                   solutions) } :
          /\ isPlaying' = eff.isPlaying
          /\ timer' = eff.timer
    /\ event' = Ev("togglePlay")
    /\ UNCHANGED << harness, appVars, centroids, scannerVars, lastCapture, call,
                    solutions, isSolving, tutorialHint, runs, hintCalls, frameOf,
                    solvedFrom, activeSolutionIdx, playbackIdx >>

\* App lines 73-76: the timeout of the playback effect fires, and the effect
\* runs again for the new playbackIdx.
TimerFires ==
    /\ harness \in PlaybackHarnesses
    /\ ~Crashed
    /\ timer
    /\ playbackIdx' = playbackIdx + 1
    /\ \E eff \in { playbackEffect(isPlaying, activeSolutionIdx, playbackIdx + 1,
                                   solutions) } :
          /\ isPlaying' = eff.isPlaying
          /\ timer' = eff.timer
    /\ event' = Ev("timer")
    /\ UNCHANGED << harness, appVars, centroids, scannerVars, lastCapture, call,
                    solutions, isSolving, tutorialHint, runs, hintCalls, frameOf,
                    solvedFrom, activeSolutionIdx >>

\* getClosestColor applied to an input, once per behaviour.
UnitGetClosestColor(rgb) ==
    /\ harness = "getClosestColor"
    /\ call = NoCall
    /\ call' = [ NoCall EXCEPT
                   !.fn    = "getClosestColor",
                   !.rgb   = rgb,
                   !.lab   = rgbToLab(rgb[1], rgb[2], rgb[3]),
                   !.color = getClosestColor(rgb[1], rgb[2], rgb[3]) ]
    /\ event' = NoEvent
    /\ UNCHANGED << harness, appVars, centroids, scannerVars, lastCapture,
                    solveVars, frameOf >>

\* The nearest-centroid step applied to a converted point, once per behaviour.
UnitClosestCentroid(lab) ==
    /\ harness = "closestCentroid"
    /\ call = NoCall
    /\ call' = [ NoCall EXCEPT
                   !.fn    = "closestCentroid",
                   !.lab   = lab,
                   !.color = closestCentroid(lab) ]
    /\ event' = NoEvent
    /\ UNCHANGED << harness, appVars, centroids, scannerVars, lastCapture,
                    solveVars, frameOf >>

\* The distance of the nearest-centroid step applied to two points, in both
\* orders, once per behaviour.
UnitDistance(p, q) ==
    /\ harness = "distance"
    /\ call = NoCall
    /\ call' = [ NoCall EXCEPT
                   !.fn           = "distance",
                   !.lab          = p,
                   !.other        = q,
                   !.distance     = deltaE(p, q),
                   !.distanceBack = deltaE(q, p) ]
    /\ event' = NoEvent
    /\ UNCHANGED << harness, appVars, centroids, scannerVars, lastCapture,
                    solveVars, frameOf >>

\* geminiSolver applied to a cube state, with the response generateContent
\* settles with and the time it took, once per behaviour.
UnitGeminiSolver(state, response, elapsed) ==
    /\ harness = "geminiSolver"
    /\ call = NoCall
    /\ call' = [ NoCall EXCEPT
                   !.fn       = "geminiSolver",
                   !.response = response,
                   !.elapsed  = elapsed,
                   !.gemini   = geminiSolver(state, response, elapsed) ]
    /\ event' = NoEvent
    /\ UNCHANGED << harness, appVars, centroids, scannerVars, lastCapture,
                    solveVars, frameOf >>

\* handleFaceScan applied to a key and a face.
UnitHandleFaceScan(faceKey, faceData) ==
    /\ harness = "handleFaceScan"
    /\ cubeState' = handleFaceScan(cubeState, faceKey, faceData)
    /\ call' = [ NoCall EXCEPT !.fn = "handleFaceScan", !.key = faceKey ]
    /\ event' = NoEvent
    /\ UNCHANGED << harness, view, centroids, scannerVars, lastCapture,
                    solveVars, frameOf >>

Next ==
    \/ \E v \in Views : SetView(v)
    \/ StartCamera
    \/ GetUserMediaResolved
    \/ GetUserMediaRejected
    \/ \E f \in Frames, ctxOk \in BOOLEAN : CaptureFace(f, ctxOk)
    \/ RunComparison
    \/ \E i \in 1 .. MaxRuns, response \in AppSolverResponses :
          GeminiSettles(i, response)
    \/ \E response \in HintResponses : HintSettles(response)
    \/ \E idx \in 0 .. 2 : StartPlayback(idx)
    \/ TogglePlay
    \/ TimerFires
    \/ \E rgb \in RGBInputs : UnitGetClosestColor(rgb)
    \/ \E lab \in LabInputs : UnitClosestCentroid(lab)
    \/ \E p \in LabInputs, q \in LabInputs : UnitDistance(p, q)
    \/ \E response \in SolverResponses, elapsed \in ElapsedTimes :
          UnitGeminiSolver(INITIAL_CUBE_STATE, response, elapsed)
    \/ \E i \in 1 .. Len(faceKeys), faceData \in UnitFaces :
          UnitHandleFaceScan(faceKeys[i], faceData)

Spec == Init /\ [][Next]_vars

\* A user who opens the scan view, enables the camera and keeps capturing
\* (the clicks of App line 144 and Scanner lines 446 and 512, made whenever
\* their buttons are rendered again and again), with a getUserMedia that
\* resolves and, in the assembled app, a canvas that gives a context.
KeepsCapturing ==
    /\ SF_vars(SetView("scan"))
    /\ SF_vars(StartCamera)
    /\ SF_vars(GetUserMediaResolved)
    /\ SF_vars(harness = "App" /\ \E f \in Frames : CaptureFace(f, TRUE))

FairSpec == Spec /\ KeepsCapturing

\* The generateContent call a run awaits (geminiService lines 22-49) returns
\* or fails: its promise settles.
AiCallSettles ==
    WF_vars(\E i \in 1 .. MaxRuns, response \in AppSolverResponses :
               GeminiSettles(i, response))

SettlingSpec == Spec /\ AiCallSettles

-----------------------------------------------------------------------------
(* What a state records of the classifications made *)

Cells == (0 .. 2) \X (0 .. 2)

\* The position of a label in the reference table.
EntryOf(color) == CHOOSE i \in 1 .. Len(centroids) : centroids[i][1] = color

\* The conversions a state records: the input of the getClosestColor call
\* and the nine samples of the last capture, each with its Lab point.
Converted ==
    (IF call.fn = "getClosestColor"
     THEN { [ rgb |-> call.rgb, lab |-> call.lab ] }
     ELSE { })
      \cup
    (IF lastCapture.frame # 0
     THEN { [ rgb |-> lastCapture.samples[c],
              lab |-> rgbToLab(lastCapture.samples[c][1],
                               lastCapture.samples[c][2],
                               lastCapture.samples[c][3]) ] : c \in Cells }
     ELSE { })

\* The classifications a state records: the point classified and the label
\* returned for it.
Classified ==
    (IF call.fn \in { "getClosestColor", "closestCentroid" }
     THEN { [ lab |-> call.lab, color |-> call.color ] }
     ELSE { })
      \cup
    (IF lastCapture.frame # 0
     THEN { [ lab   |-> rgbToLab(lastCapture.samples[c][1],
                                 lastCapture.samples[c][2],
                                 lastCapture.samples[c][3]),
              color |-> lastCapture.face[c[1] + 1][c[2] + 1] ] : c \in Cells }
     ELSE { })

\* The labels of a face.
LabelsOf(face) ==
    { face[row][col] : row \in DOMAIN face, col \in 1 .. 3 }

-----------------------------------------------------------------------------
(* C1 *)

\* C1: getClosestColor returns one of the six labels for every input, so
\* every result of a call, every cell of a detected face and every cell of
\* every face stored in the CubeState is one of the six labels.
C1_OnlySixLabels ==
    /\ call.fn \in { "getClosestColor", "closestCentroid" } => call.color \in Color
    /\ lastCapture.frame # 0 =>
         \A row \in DOMAIN lastCapture.face :
            \A col \in DOMAIN lastCapture.face[row] :
               lastCapture.face[row][col] \in Color
    /\ \A k \in DOMAIN cubeState :
          \A row \in DOMAIN cubeState[k] :
             \A col \in DOMAIN cubeState[k][row] :
                cubeState[k][row][col] \in Color

\* A scanned face of several labels is stored in the CubeState.
C1_Witness ==
    /\ lastCapture.frame # 0
    /\ cubeState[lastCapture.key] = lastCapture.face
    /\ Cardinality(LabelsOf(lastCapture.face)) >= 4

-----------------------------------------------------------------------------
(* C2 *)

\* C2: the label returned has a centroid at minimum distance from the
\* converted point: no centroid of the table is closer.
C2_MinimumDistance ==
    \A c \in Classified :
       \A i \in 1 .. Len(centroids) :
          distanceSq(c.lab, centroids[EntryOf(c.color)][2])
            <= distanceSq(c.lab, centroids[i][2])

\* getClosestColor returned the last label of the table: the best label was
\* replaced in the loop, and every other centroid is strictly farther.
C2_Witness ==
    /\ call.fn = "getClosestColor"
    /\ call.color = "green"
    /\ \A i \in 1 .. Len(centroids) :
          centroids[i][1] # "green" =>
             distanceSq(call.lab, centroids[EntryOf("green")][2])
               < distanceSq(call.lab, centroids[i][2])

-----------------------------------------------------------------------------
(* C3 *)

\* C3: among the centroids at the same distance as the returned one, the
\* returned label is the first in the table order.
C3_FirstOfTies ==
    \A c \in Classified :
       \A i \in 1 .. Len(centroids) :
          distanceSq(c.lab, centroids[i][2])
              = distanceSq(c.lab, centroids[EntryOf(c.color)][2])
            => EntryOf(c.color) <= i

\* A point with two centroids at the same minimum distance was classified,
\* and the earlier of the two was returned.
C3_Witness ==
    /\ call.fn = "closestCentroid"
    /\ \E i \in 1 .. Len(centroids) :
          /\ i > EntryOf(call.color)
          /\ distanceSq(call.lab, centroids[i][2])
               = distanceSq(call.lab, centroids[EntryOf(call.color)][2])
    /\ \A i \in 1 .. Len(centroids) :
          distanceSq(call.lab, centroids[EntryOf(call.color)][2])
            <= distanceSq(call.lab, centroids[i][2])

-----------------------------------------------------------------------------
(* C4 *)

\* The canonical RGB value of a label, in hundredths.
Canonical(c) ==
    << 100 * HexToRGB(COLOR_MAP[c])[1], 100 * HexToRGB(COLOR_MAP[c])[2],
       100 * HexToRGB(COLOR_MAP[c])[3] >>

\* C4: the canonical RGB value of each label (its COLOR_MAP value, which is
\* (255,255,255) for white and (255,215,0) for yellow) is classified as that
\* label.
C4_CanonicalValues ==
    /\ Canonical("white") = << 25500, 25500, 25500 >>
    /\ Canonical("yellow") = << 25500, 21500, 0 >>
    /\ Canonical("red") = << 22000, 3800, 3800 >>
    /\ Canonical("orange") = << 24900, 11500, 2200 >>
    /\ Canonical("blue") = << 3700, 9900, 23500 >>
    /\ Canonical("green") = << 2200, 16300, 7400 >>
    /\ \A c \in Color :
          call.fn = "getClosestColor" /\ call.rgb = Canonical(c) => call.color = c

\* The canonical orange was classified as orange.
C4_Witness ==
    /\ call.fn = "getClosestColor"
    /\ call.rgb = << 24900, 11500, 2200 >>
    /\ call.color = "orange"

-----------------------------------------------------------------------------
(* C5 *)

\* C5: the reference table has exactly six entries, one for each label, and
\* no operation changes it.
C5_TableFixed ==
    /\ centroids = COLOR_CENTROIDS
    /\ Len(centroids) = 6
    /\ { centroids[i][1] : i \in 1 .. Len(centroids) } = Color
    /\ \A i, j \in 1 .. Len(centroids) : centroids[i][1] = centroids[j][1] => i = j

\* The table is as initialised after a capture classified nine samples.
C5_Witness ==
    /\ lastCapture.frame # 0
    /\ centroids = COLOR_CENTROIDS
    /\ Len(centroids) = 6

-----------------------------------------------------------------------------
(* C6 *)

\* C6: the nearest-centroid step applied to the reference centroid of a
\* label returns that label.
C6_CentroidsFixedPoints ==
    \A i \in 1 .. Len(COLOR_CENTROIDS) :
       call.fn = "closestCentroid" /\ call.lab = COLOR_CENTROIDS[i][2]
         => call.color = COLOR_CENTROIDS[i][1]

\* The centroid of green, the last of the table, was classified as green.
C6_Witness ==
    /\ call.fn = "closestCentroid"
    /\ call.lab = << 5500, -5000, 4000 >>
    /\ call.color = "green"

-----------------------------------------------------------------------------
(* C7 *)

\* C7: the lightness rgbToLab returns for a channel triple in 0 .. 255 lies
\* in [0, 100].
C7_LightnessRange ==
    \A c \in Converted :
       (\A ch \in 1 .. 3 : c.rgb[ch] >= 0 /\ c.rgb[ch] <= 25500)
         => c.lab[1] >= 0 /\ c.lab[1] <= 10000

\* White was converted, and its lightness is the upper end of the interval.
C7_Witness ==
    /\ call.fn = "getClosestColor"
    /\ call.rgb = << 25500, 25500, 25500 >>
    /\ call.lab[1] = 10000

-----------------------------------------------------------------------------
(* C8 *)

RECURSIVE SeqSum(_)
SeqSum(sq) == IF sq = << >> THEN 0 ELSE Head(sq) + SeqSum(Tail(sq))

\* The number of pixels of a region.
PixelsOf(imgData) == Cardinality(DOMAIN imgData) \div 4

\* The sum of channel ch (0, 1, 2) over all pixels of a 10 x 10 region, row
\* by row.
ChannelTotal(imgData, ch) ==
    SeqSum([ j \in 1 .. SampleSide |->
               SeqSum([ i \in 1 .. SampleSide |->
                          imgData[4 * (SampleSide * (j - 1) + (i - 1)) + ch] ]) ])

\* Every pixel of the region has the RGB value of its first pixel.
Uniform(imgData) ==
    \A p \in 0 .. (PixelsOf(imgData) - 1) :
       \A ch \in 0 .. 2 : imgData[4 * p + ch] = imgData[ch]

\* C8: each sample of a capture (looked at in the state the capture leaves,
\* lastCapture being kept until the next one) is, per channel, the sum of the
\* channel over all pixels of the sampled region divided by the number of
\* pixels (samples are in hundredths), whatever the alpha bytes; for a region
\* of a single RGB value it is exactly that value.
C8_SampleIsMean ==
    (lastCapture.frame # 0 /\ event.op = "captureFace" /\ event.calls # << >>) =>
       \A c \in Cells :
          \A imgData \in { regionAt(lastCapture.frame, c[1], c[2]) } :
              /\ PixelsOf(imgData) = SampleSide * SampleSide
              /\ \A ch \in 0 .. 2 :
                    lastCapture.samples[c][ch + 1] * PixelsOf(imgData)
                      = 100 * ChannelTotal(imgData, ch)
              /\ Uniform(imgData) =>
                    \A ch \in 0 .. 2 :
                       lastCapture.samples[c][ch + 1] = 100 * imgData[ch]

\* A capture sampled a region of a single coloured value and returned
\* exactly that value, and sampled a region of several values.
C8_Witness ==
    /\ lastCapture.frame # 0
    /\ \E c \in Cells :
          LET imgData == regionAt(lastCapture.frame, c[1], c[2])
          IN  /\ Uniform(imgData)
              /\ imgData[0] # imgData[2]
              /\ lastCapture.samples[c]
                   = << 100 * imgData[0], 100 * imgData[1], 100 * imgData[2] >>
    /\ \E c \in Cells : ~Uniform(regionAt(lastCapture.frame, c[1], c[2]))

-----------------------------------------------------------------------------
(* C9 *)

\* C9: the face a capture delivers has exactly 3 rows of exactly 3 labels;
\* nine samples are taken, one per cell; cell (row, col) is the
\* classification of the sample at grid position (row, col); and the face is
\* the one stored by onScanComplete under the delivered key.
C9_ThreeByThree ==
    lastCapture.frame # 0 =>
       /\ Len(lastCapture.face) = 3
       /\ \A row \in 1 .. 3 : Len(lastCapture.face[row]) = 3
       /\ DOMAIN lastCapture.samples = Cells
       /\ Cardinality(DOMAIN lastCapture.samples) = 9
       /\ \A c \in Cells :
             LET rgb == sampleAt(lastCapture.frame, c[1], c[2])
             IN  /\ lastCapture.samples[c] = rgb
                 /\ lastCapture.face[c[1] + 1][c[2] + 1]
                      = closestCentroid(rgbToLab(rgb[1], rgb[2], rgb[3]))
       /\ cubeState[lastCapture.key] = lastCapture.face

\* A capture delivered a face whose cells (0, 1) and (1, 0) differ.
C9_Witness ==
    /\ lastCapture.frame # 0
    /\ Len(lastCapture.face) = 3
    /\ lastCapture.face[1][2] # lastCapture.face[2][1]
    /\ cubeState[lastCapture.key] = lastCapture.face

-----------------------------------------------------------------------------
(* C10 *)

\* The key and the face of the handleFaceScan call of a step.
WrittenKey ==
    IF harness \in AppHarnesses \cup ScannerHarnesses
    THEN lastCapture'.key
    ELSE call'.key

\* C10: the CubeState always has exactly the keys U, D, L, R, F, B, and a
\* step that changes it replaces the face under the key handleFaceScan was
\* called with and leaves the other five faces as they were.
C10_OneFaceAtATime ==
    /\ DOMAIN cubeState = FaceKeyNames
    /\ [][ /\ DOMAIN cubeState' = FaceKeyNames
           /\ cubeState' # cubeState =>
                /\ WrittenKey \in FaceKeyNames
                /\ cubeState'[WrittenKey] # cubeState[WrittenKey]
                /\ harness \in AppHarnesses \cup ScannerHarnesses =>
                      cubeState'[WrittenKey] = lastCapture'.face
                /\ harness \in UnitHarnesses =>
                      cubeState'[WrittenKey] \in UnitFaces
                /\ \A j \in FaceKeyNames \ { WrittenKey } :
                      cubeState'[j] = cubeState[j] ]_vars

\* handleFaceScan('B', face) replaced the B face and only it.
C10_Witness ==
    /\ call.fn = "handleFaceScan"
    /\ call.key = "B"
    /\ cubeState.B = createFace("red")
    /\ \A j \in FaceKeyNames \ { "B" } : cubeState[j] = INITIAL_CUBE_STATE[j]

-----------------------------------------------------------------------------
(* C11 *)

\* The keys for which step's capture called onScanComplete.
DeliveredKeys(ev) == { ev.calls[i].key : i \in 1 .. Len(ev.calls) }

\* The last face a step's capture delivered for key k.
DeliveredFace(ev, k) ==
    ev.calls[CHOOSE i \in 1 .. Len(ev.calls) :
               /\ ev.calls[i].key = k
               /\ \A j \in (i + 1) .. Len(ev.calls) : ev.calls[j].key # k].face

-----------------------------------------------------------------------------
(* C12 *)

\* C12: a face is delivered through onScanComplete only by a step that is a
\* click on the capture button, such a click delivers at most one face, and
\* a CubeState that differs from the initial one has a capture behind it.
C12_CaptureOnDemand ==
    /\ Len(event.calls) <= 1
    /\ event.calls # << >> => event.op = "captureFace"
    /\ (harness \in AppHarnesses \cup ScannerHarnesses
          /\ cubeState # INITIAL_CUBE_STATE) => lastCapture # NoCapture
    /\ \A k \in FaceKeyNames :
          cubeState[k] # INITIAL_CUBE_STATE[k] => harness \in UnitHarnesses \/ frameOf[k] # 0

\* A click on the capture button delivered exactly one face, now stored
\* under the delivered key.
C12_Witness ==
    /\ event.op = "captureFace"
    /\ Len(event.calls) = 1
    /\ event.calls[1].key = "F"
    /\ cubeState.F = event.calls[1].face
    /\ cubeState.F # INITIAL_CUBE_STATE.F


-----------------------------------------------------------------------------
\* C13.  The comparison list.

\* The solver names of a list of solutions, in order.
SolverNames(list) == [ i \in 1 .. Len(list) |-> list[i].solverName ]

\* C13: solutions has length 0 or 3 in every state; when it is not empty its
\* second and third entries are the 'Kociemba WASM' and 'Korf Optimal'
\* placeholders, the same records in every state, and its first entry is an
\* AI solver result; right after a run completes the first entry is the
\* result that run's geminiSolver call returned.
C13_ThreeSolutionsInOrder ==
    /\ Len(solutions) \in { 0, 3 }
    /\ solutions # << >> =>
          /\ solutions[2] = kociembaMock
          /\ solutions[3] = korfMock
          /\ Tail(SolverNames(solutions)) = << "Kociemba WASM", "Korf Optimal" >>
          /\ solutions[1].solverName \in
                { "Gemini AI (Deep Learning)", "Gemini AI" }
    /\ (harness \in SolveHarnesses /\ event.op = "geminiSolver") =>
          /\ Len(solutions) = 3
          /\ solutions[1] = event.gemini.value

\* A run has completed with an answer of the model and the list holds it
\* first.
C13_Witness ==
    /\ harness \in SolveHarnesses
    /\ event.op = "geminiSolver"
    /\ SolverNames(solutions) =
          << "Gemini AI (Deep Learning)", "Kociemba WASM", "Korf Optimal" >>
    /\ ~isSolving


-----------------------------------------------------------------------------
\* C14.  A captured face depends on the frame only.

\* The keys whose stored face was captured from frame f.
KeysOfFrame(f) == { k \in FaceKeyNames : frameOf[k] = f }

-----------------------------------------------------------------------------
\* C15.  The distance of the classifier.

\* C15: the distance computed between two points is not negative, and it is
\* the same when the two points are given in the other order; it is zero
\* between a point and itself.
C15_DistanceNonNegativeSymmetric ==
    call.fn = "distance" =>
       /\ call.distance >= 0
       /\ call.distance = call.distanceBack
       /\ call.lab = call.other => call.distance = 0

\* The distance has been computed, both ways, between two different points
\* with different lightness.
C15_Witness ==
    /\ call.fn = "distance"
    /\ call.lab[1] # call.other[1]
    /\ call.distance > 0
    /\ call.distanceBack > 0


-----------------------------------------------------------------------------
\* C16.  The scan-completion transition.

-----------------------------------------------------------------------------
\* C17.  A full scan in the assembled app.

\* The scanner has captured six faces and each face of the cube holds the
\* grid its capture delivered.
FullScan ==
    /\ scanningStatus = "SUCCESS"
    /\ Len(capturedFaces) = 6
    /\ \A k \in FaceKeyNames :
          /\ frameOf[k] # 0
          /\ cubeState[k] = scanFace(frameOf[k], 0, << >>)

\* C17: in the assembled app a user who enables the camera and keeps
\* capturing (who is in the scan view again and again) completes a full
\* scan.  In the code the camera never becomes active: startCamera sets
\* isCameraActive only if videoRef.current is set, and the video element is
\* rendered only while isCameraActive.
C17_FullScanReachable ==
    (harness = "App" /\ []<>(view = "scan")) => <>FullScan

\* The assembled app never shows the capture button, and no app harness
\* reaches SUCCESS.
C17_CameraNeverActive ==
    /\ harness = "App" => ~isCameraActive /\ lastCapture = NoCapture
    /\ harness \in AppHarnesses => scanningStatus # "SUCCESS"


-----------------------------------------------------------------------------
\* C18.  The order of delivery within a scanner session.

\* The keys delivered so far, where the behaviour is one scanner session.
SessionKeys == { k \in FaceKeyNames : frameOf[k] # 0 }

\* The first n keys of the order F, B, U, D, L, R.
FirstKeys(n) == { << "F", "B", "U", "D", "L", "R" >>[i] : i \in 1 .. n }

\* C18: the capture made when k faces are already captured in the session
\* (k = 0..5) calls onScanComplete with the k-th key of F, B, U, D, L, R, and
\* the key was not delivered before in that session: the keys delivered in a
\* session are always the first keys of that order, one per captured face.
C18_DeliveredInOrder ==
    [][ (event'.op = "captureFace" /\ event'.calls # << >>) =>
           ( /\ Len(capturedFaces) \in 0 .. 5
             /\ event'.calls[1].key =
                   << "F", "B", "U", "D", "L", "R" >>[Len(capturedFaces) + 1]
             /\ (harness \in ScannerHarnesses) =>
                   ( /\ SessionKeys = FirstKeys(Len(capturedFaces))
                     /\ event'.calls[1].key \notin SessionKeys
                     /\ SessionKeys' = FirstKeys(Len(capturedFaces'))
                     /\ Len(capturedFaces') = Len(capturedFaces) + 1 ) ) ]_vars

\* The sixth capture of a session has delivered R, after F, B, U, D and L.
C18_Witness ==
    /\ harness \in ScannerHarnesses
    /\ event.op = "captureFace"
    /\ event.index = 5
    /\ event.calls[1].key = "R"
    /\ SessionKeys = FaceKeyNames
    /\ capturedFaces = << "Front", "Back", "Up", "Down", "Left", "Right" >>


-----------------------------------------------------------------------------
\* C19.  At most six captures, and SUCCESS.

\* A step within one mounted Scanner.
SameSession ==
    /\ harness \in AppHarnesses \cup ScannerHarnesses
    /\ view = "scan"
    /\ view' = "scan"

\* The number of captured faces never exceeds 6, and captureFace called with
\* six faces captured delivers nothing and changes nothing.
NoCaptureBeyondSix ==
    /\ Len(capturedFaces') <= 6
    /\ (event'.op = "captureFace" /\ Len(capturedFaces) = 6) =>
          /\ event'.calls = << >>
          /\ UNCHANGED << cubeState, scannerVars, view, frameOf >>

\* scanningStatus becomes 'SUCCESS' exactly when the sixth face is captured.
SuccessAtSixth ==
    /\ (scanningStatus # "SUCCESS" /\ scanningStatus' = "SUCCESS") =>
          /\ event'.op = "captureFace"
          /\ Len(capturedFaces) = 5
          /\ Len(capturedFaces') = 6
    /\ (SameSession /\ Len(capturedFaces) = 5 /\ Len(capturedFaces') = 6) =>
          scanningStatus' = "SUCCESS"

\* scanningStatus never leaves 'SUCCESS' in the session.
SuccessStays ==
    (SameSession /\ scanningStatus = "SUCCESS") => scanningStatus' = "SUCCESS"

C19_SixCapturesSuccessAtSixth ==
    [][ NoCaptureBeyondSix /\ SuccessAtSixth ]_vars


-----------------------------------------------------------------------------
\* C20.  geminiSolver never rejects.

\* The Solution of line 66, written out.
ErrorSolution ==
    [ moves       |-> JsArray(<< >>),
      solverName  |-> "Gemini AI",
      timeMs      |-> 0,
      explanation |-> JsString("Error communicating with AI") ]

\* Texts that are not JSON: nothing, white space, a bare word, an object cut
\* short.
NotJsonTexts ==
    { << >>,
      << Ws >>,
      << Word("Sorry") >>,
      << Punct("{"), Str("moves"), Punct(":"), Punct("["), Str("R") >> }

\* A response failed as C20 lists: the call threw, the text is missing or
\* empty, or the text is not valid JSON.
FailedResponse(response) ==
    \/ ~response.fulfilled
    \/ ~response.hasText
    \/ response.text \in NotJsonTexts
    \/ ~JSONparse(trim(response.text)).ok

\* The moves a response carries.
ResponseMoves(response) ==
    property(JSONparse(trim(response.text)).value, "moves").value

\* What C20 says of one geminiSolver call that got response and returned
\* result.
NeverFails(response, elapsed, result) ==
    /\ result.settled = "fulfilled"
    /\ result.value.solverName \in { "Gemini AI", "Gemini AI (Deep Learning)" }
    /\ FailedResponse(response) => result.value = ErrorSolution
    /\ result.value.solverName = "Gemini AI (Deep Learning)" =>
          /\ ~FailedResponse(response)
          /\ result.value.moves = ResponseMoves(response)
          /\ result.value.timeMs = (elapsed + 5) \div 10
    /\ (~FailedResponse(response)
          /\ JSONparse(trim(response.text)).value.t = "object") =>
          result.value.solverName = "Gemini AI (Deep Learning)"
    /\ (\E i \in 1 .. Len(response.text) : response.text[i] = Str("CFOP")) =>
          /\ result.value.moves = JsArray(<< JsString("R"), JsString("U'") >>)
          /\ result.value.explanation = JsString("Cross")

\* C20: the promise of geminiSolver always fulfils; when the API call throws,
\* the response text is missing or empty, or the text is not valid JSON, it
\* fulfils with the Solution of line 66; when it fulfils under the name
\* 'Gemini AI (Deep Learning)' the response had none of these failures and
\* the moves are those of the response, which is the case for every response
\* that is a JSON object.
C20_NeverFailsTowardsCaller ==
    /\ call.fn = "geminiSolver" =>
          NeverFails(call.response, call.elapsed, call.gemini)
    /\ event.op = "geminiSolver" =>
          /\ event.gemini.settled = "fulfilled"
          /\ event.gemini.value.solverName \in
                { "Gemini AI", "Gemini AI (Deep Learning)" }
          /\ event.gemini.value.solverName = "Gemini AI" =>
                event.gemini.value = ErrorSolution

\* geminiSolver has returned the error Solution for a text that is not JSON.
C20_Witness ==
    /\ call.fn = "geminiSolver"
    /\ call.response.fulfilled
    /\ call.response.hasText
    /\ call.response.text = << Word("Sorry") >>
    /\ call.gemini.settled = "fulfilled"
    /\ call.gemini.value = ErrorSolution


-----------------------------------------------------------------------------
\* C21.  A run ends the solving state.

\* isSolving is true exactly while a run awaits geminiSolver.
SolvingWhileAwaiting ==
    harness \in SolveHarnesses => (isSolving <=> runs # << >>)

\* isSolving goes from true to false only in the step that sets solutions,
\* to the comparison of the result geminiSolver returned, and the step in
\* which the AI call returns or fails makes it false.
SolvingUntilSolutions ==
    /\ (isSolving /\ ~isSolving') =>
          /\ event'.op = "geminiSolver"
          /\ Len(solutions') = 3
          /\ solutions'[1] = event'.gemini.value
    /\ (isSolving /\ event'.op = "geminiSolver") => ~isSolving'
    /\ (~isSolving /\ isSolving') => Len(runs') = Len(runs) + 1

\* C21: isSolving is true from the start of a run until its solutions are
\* set; the AI call returning or failing makes it false again; and, the AI
\* call settling, it is never left true forever.
C21_SolvingEventuallyEnds ==
    /\ []SolvingWhileAwaiting
    /\ [][SolvingUntilSolutions]_vars
    /\ (isSolving ~> ~isSolving)

\* A run whose AI call failed has ended the solving state with the error
\* Solution first.
C21_Witness ==
    /\ harness \in SolveHarnesses
    /\ event.op = "geminiSolver"
    /\ ~isSolving
    /\ runs = << >>
    /\ Len(solutions) = 3
    /\ solutions[1].solverName = "Gemini AI"


-----------------------------------------------------------------------------
\* C22.  One run in flight.

\* A run starts in this step.
RunStarts == Len(runs') > Len(runs)

\* C22: at most one runComparison awaits its solutions at any time; a run
\* starts only from a click on Compute in the solve view while isSolving is
\* false and no run is in flight, and it sets isSolving, which stays true as
\* long as the run is in flight.
C22_OneRunInFlight ==
    /\ [](Len(runs) <= 1 /\ (runs # << >> => isSolving))
    /\ [][ RunStarts =>
             ( /\ view = "solve"
               /\ ~isSolving
               /\ runs = << >>
               /\ isSolving'
               /\ Len(runs') = 1 ) ]_vars

\* A second run is in flight after the first one has set its solutions.
C22_Witness ==
    /\ harness \in SolveHarnesses
    /\ Len(runs) = 1
    /\ isSolving
    /\ Len(solutions) = 3


-----------------------------------------------------------------------------
\* C23.  The solutions shown and the current cube.

C23_FreshSolutionsMatchCube ==
    (harness \in SolveHarnesses /\ event.op = "geminiSolver"
       /\ solutions # << >> /\ ~isSolving) =>
       solvedFrom = cubeState


-----------------------------------------------------------------------------
\* C24.  Playback terminates.

\* The solution being played has an array of moves.
ActiveHasMoves(list, active) ==
    /\ active # null
    /\ active < Len(list)
    /\ isArray(solutionAt(list, active).moves)

\* n: the number of moves of the solution being played.
ActiveLength(list, active) == movesLength(solutionAt(list, active).moves)

\* A step made by the user on the playback controls.
PlaybackInput == event'.op \in { "startPlayback", "togglePlay" }

\* While a playback is on, a timeout is pending and playbackIdx is below n:
\* with the timer firing, it goes on.
PlaybackGoesOn ==
    (harness \in PlaybackHarnesses /\ isPlaying /\ activeSolutionIdx # null) =>
       /\ ActiveHasMoves(solutions, activeSolutionIdx)
       /\ timer
       /\ playbackIdx < ActiveLength(solutions, activeSolutionIdx)

\* playbackIdx starts at 0 and advances by exactly one per tick, up to n;
\* isPlaying becomes false, other than by the user, when playbackIdx is n;
\* for zero moves startPlayback leaves isPlaying false and no timeout.
PlaybackSteps ==
    /\ playbackIdx' # playbackIdx =>
          \/ event'.op = "timer" /\ playbackIdx' = playbackIdx + 1
          \/ event'.op = "startPlayback" /\ playbackIdx' = 0
    /\ event'.op = "timer" =>
          /\ playbackIdx' = playbackIdx + 1
          /\ playbackIdx' <= ActiveLength(solutions, activeSolutionIdx)
    /\ (isPlaying /\ ~isPlaying' /\ ~PlaybackInput) =>
          /\ ActiveHasMoves(solutions', activeSolutionIdx')
          /\ playbackIdx' = ActiveLength(solutions', activeSolutionIdx')
    /\ event'.op = "startPlayback" =>
          /\ playbackIdx' = 0
          /\ isPlaying' = (ActiveLength(solutions', activeSolutionIdx') > 0)
          /\ timer' = isPlaying'

\* C24: after startPlayback(i), with no further user input and the timer
\* firing, playbackIdx goes 0, 1, ..., n, by one per tick, and then isPlaying
\* becomes false; for a solution with zero moves isPlaying becomes false
\* without any tick.  In the code a run that sets solutions during a playback
\* (App line 49) changes the list under it: the playback stops at an index
\* that is not n, or the application is unmounted with isPlaying true when
\* the new AI solution has no moves array.
C24_PlaybackTerminates ==
    /\ []PlaybackGoesOn
    /\ [][PlaybackSteps]_vars

\* The same, for the steps that leave solutions as it is: it holds.
C24_PlaybackOnFixedSolutions ==
    /\ [](~Crashed => PlaybackGoesOn)
    /\ [][ solutions' = solutions => PlaybackSteps ]_vars

\* The same without the states in which the application is unmounted: it
\* fails, a playback stopping at an index that is not n.
C24_PlaybackWhileMounted ==
    /\ [](~Crashed => PlaybackGoesOn)
    /\ [][ ~Crashed' => PlaybackSteps ]_vars

\* A playback of the four moves of 'Korf Optimal' has reached its end.
C24_PlayedToTheEnd ==
    /\ harness \in PlaybackHarnesses
    /\ event.op = "timer"
    /\ activeSolutionIdx = 2
    /\ playbackIdx = 4
    /\ ~isPlaying
    /\ ~timer

=============================================================================
